---- MODULE Spec2Model ----
(***************************************************************************)
(* bdscript: tokenizer (parser/tokenizer.rs) and indentation-gated         *)
(* recursive-descent parser (parser/scanner.rs, build_ast).                *)
(*                                                                         *)
(* A token is a record [k, v]: k is the Token variant, v its payload (the  *)
(* text of a Number, Str, Ident or State token, <<>> otherwise).  A parser *)
(* of the expression grammar is an operator P(t, p) over the token         *)
(* sequence t and the cursor p; it returns [st, pos, val] where st is      *)
(* "ok" (matched, cursor now at pos, output val), "err" (no match: the     *)
(* caller rewinds to p) or "panic" (a Rust panic, which unwinds through    *)
(* every caller).  A parser of the block grammar also threads the shared   *)
(* Cell<usize> indent_count: it takes the value cnt on entry and returns   *)
(* the value on exit, on failure as well as on success, because a rewind   *)
(* of the input does not rewind the Cell.                                  *)
(***************************************************************************)
EXTENDS Integers, Sequences, FiniteSets, TLC

\* input: how the source text was composed (kept to state what it must parse to)
\* src: the source text; tokens: the collected token stream
\* indent_count: the Cell<usize> given to build_ast
\* pc: "lex", "parse" or "done"; result: what the tokenizer or the parser returned
\* log: the events of the parse
VARIABLES input, src, tokens, indent_count, pc, result, log

vars == <<input, src, tokens, indent_count, pc, result, log>>

\* K applied to the value v: the value is computed once and named in K.
Bind(v, K(_)) == K(v)

(***************************************************************************)
(* Tokens                                                                  *)
(***************************************************************************)
Tok(k) == [k |-> k, v |-> <<>>]

StrTok(s) == [k |-> "Str", v |-> s]

\* What the stream yields past its last token (chumsky: end of input).
EndOfInput == [k |-> "EndOfInput", v |-> <<>>]

TokAt(t, p) == IF p >= 1 /\ p <= Len(t) THEN t[p] ELSE EndOfInput

(***************************************************************************)
(* AST data model                                                          *)
(***************************************************************************)
Constant(n) == [tag |-> "Constant", v |-> n]

StrObj(s) == [tag |-> "Str", v |-> s]

Variable(s) == [tag |-> "Variable", v |-> s]

Tuple(es) == [tag |-> "Tuple", items |-> es]

Array(es) == [tag |-> "Array", items |-> es]

Dict(es) == [tag |-> "Dict", items |-> es]

DictItem(key, value) == [tag |-> "DictItem", key |-> key, value |-> value]

Unary(op, hs) == [tag |-> "Unary", op |-> op, hs |-> hs]

Binary(op, lhs, rhs) == [tag |-> "Binary", op |-> op, lhs |-> lhs, rhs |-> rhs]

Query(with, without) ==
  [tag |-> "Query", with_compoents |-> with, without_compoents |-> without]

Branch(condition, commands) == [condition |-> condition, commands |-> commands]

CmdExpression(e) == [tag |-> "Expression", e |-> e]

\* else_branch: Option<Vec<Command>> as [some, commands]
NoElse == [some |-> FALSE, commands |-> <<>>]

SomeElse(commands) == [some |-> TRUE, commands |-> commands]

CmdIf(if_branch, else_branch) ==
  [tag |-> "If", if_branch |-> if_branch, else_branch |-> else_branch]

NewLine == [tag |-> "NewLine"]

(***************************************************************************)
(* Parser results                                                          *)
(***************************************************************************)
Unit == [tag |-> "Unit"]

Ok(pos, val) == [st |-> "ok", pos |-> pos, val |-> val]

Err == [st |-> "err", pos |-> 0, val |-> Unit]

Panic == [st |-> "panic", pos |-> 0, val |-> Unit]

\* just(Token::K)
just(t, p, k) == IF TokAt(t, p).k = k THEN Ok(p + 1, Unit) ELSE Err

(***************************************************************************)
(* Expression grammar: recursive(|expression| ...)                         *)
(***************************************************************************)
RECURSIVE expression(_, _)

parse_base_object(t, p) ==
  Bind(TokAt(t, p), LAMBDA tok :
  CASE tok.k = "Number" -> Ok(p + 1, Constant(tok.v))
    [] tok.k = "Str"    -> Ok(p + 1, StrObj(tok.v))
    [] tok.k = "Ident"  -> Ok(p + 1, Variable(tok.v))
    [] OTHER            -> Err)

parse_key_value(t, p) ==
  Bind(parse_base_object(t, p), LAMBDA k :
  IF k.st # "ok" THEN k ELSE
  Bind(just(t, k.pos, "Colon"), LAMBDA c :
  IF c.st # "ok" THEN c ELSE
  Bind(expression(t, c.pos), LAMBDA v :
  IF v.st # "ok" THEN v ELSE Ok(v.pos, DictItem(k.val, v.val)))))

\* expression.separated_by(just(Token::Comma)).allow_trailing().collect():
\* count items are already collected.  No leading separator; a separator
\* that is followed by no item stays consumed (allow_trailing).  Never fails.
RECURSIVE separated_by(_, _, _)
separated_by(t, p, count) ==
  Bind(IF count > 0 THEN just(t, p, "Comma") ELSE Ok(p, Unit), LAMBDA sep :
  IF sep.st # "ok" THEN Ok(p, <<>>) ELSE
  Bind(expression(t, sep.pos), LAMBDA item :
  IF item.st = "panic" THEN item ELSE
  IF item.st = "err" THEN Ok(sep.pos, <<>>) ELSE
  Bind(separated_by(t, item.pos, count + 1), LAMBDA rest :
  IF rest.st # "ok" THEN rest ELSE Ok(rest.pos, <<item.val>> \o rest.val))))

\* items.delimited_by(just(open), just(close))
delimited_items(t, p, open, close) ==
  Bind(just(t, p, open), LAMBDA o :
  IF o.st # "ok" THEN o ELSE
  Bind(separated_by(t, o.pos, 0), LAMBDA items :
  IF items.st # "ok" THEN items ELSE
  Bind(just(t, items.pos, close), LAMBDA c :
  IF c.st # "ok" THEN c ELSE Ok(c.pos, items.val))))

parse_array(t, p) ==
  Bind(delimited_items(t, p, "LeftBracket", "RightBracket"), LAMBDA r :
  IF r.st # "ok" THEN r ELSE Ok(r.pos, Array(r.val)))

parse_dict(t, p) ==
  Bind(delimited_items(t, p, "LeftBrace", "RightBrace"), LAMBDA r :
  IF r.st # "ok" THEN r ELSE Ok(r.pos, Dict(r.val)))

parse_tuple(t, p) ==
  Bind(delimited_items(t, p, "LeftParen", "RightParen"), LAMBDA r :
  IF r.st # "ok" THEN r ELSE Ok(r.pos, Tuple(r.val)))

\* Faulty variant: other tokens are taken for connectors too
QueryConnectorsLoose == {"And", "Or", "Add", "Comma", "Less"}

\* The connector tokens parse_query accepts: just(Token::And).or(just(Token::Or))
QueryConnectors == {"And", "Or"}

\* parse_query: a connector, then an identifier; the output is the pair.
parse_query(t, p) ==
  IF TokAt(t, p).k \in QueryConnectors /\ TokAt(t, p + 1).k = "Ident"
  THEN Ok(p + 2, [logic |-> TokAt(t, p).k, compoent |-> TokAt(t, p + 1).v])
  ELSE Err

\* parse_query.repeated().collect::<Vec<(Token, &str)>>()
RECURSIVE parse_query_repeated(_, _)
parse_query_repeated(t, p) ==
  Bind(parse_query(t, p), LAMBDA q :
  IF q.st # "ok" THEN Ok(p, <<>>) ELSE
  Bind(parse_query_repeated(t, q.pos), LAMBDA rest :
  Ok(rest.pos, <<q.val>> \o rest.val)))

\* Faulty variant: the two arms pushed to the other list
RECURSIVE classify_swapped(_, _, _, _)
classify_swapped(e, i, with, without) ==
  IF i > Len(e) THEN [st |-> "ok", with |-> with, without |-> without]
  ELSE CASE e[i].logic = "And" -> classify_swapped(e, i + 1, Append(with, e[i].compoent), without)
         [] e[i].logic = "Or" -> classify_swapped(e, i + 1, with, Append(without, e[i].compoent))
         [] OTHER -> [st |-> "panic", with |-> with, without |-> without]

\* The `for (logic, compoent) in e { match logic {..} }` loop of the map
\* closure, from element i on.  st = "panic" is the arm
\* `token => panic!("unexpected token:{token:?}")`.
RECURSIVE classify(_, _, _, _)
classify(e, i, with, without) ==
  IF i > Len(e) THEN [st |-> "ok", with |-> with, without |-> without]
  ELSE CASE e[i].logic = "Or" -> classify(e, i + 1, Append(with, e[i].compoent), without)
         [] e[i].logic = "And" -> classify(e, i + 1, with, Append(without, e[i].compoent))
         [] OTHER -> [st |-> "panic", with |-> with, without |-> without]

\* just(Less).ignore_then(ident.then(parse_query.repeated()).or_not())
\*   .then_ignore(just(Greater)): val = [some, first, e]
query_bracket(t, p) ==
  Bind(just(t, p, "Less"), LAMBDA l :
  IF l.st # "ok" THEN l ELSE
  Bind(        IF TokAt(t, l.pos).k = "Ident"
               THEN Bind(parse_query_repeated(t, l.pos + 1), LAMBDA e :
                    Ok(e.pos, [some |-> TRUE, first |-> TokAt(t, l.pos).v, e |-> e.val]))
               ELSE Ok(l.pos, [some |-> FALSE, first |-> "", e |-> <<>>]), LAMBDA inner :
      Bind(just(t, inner.pos, "Greater"), LAMBDA g :
  IF g.st # "ok" THEN g ELSE Ok(g.pos, inner.val))))

parse_query_single(t, p) ==
  Bind(just(t, p, "Query"), LAMBDA q :
  IF q.st # "ok" THEN q ELSE
  Bind(query_bracket(t, q.pos), LAMBDA br :
  IF br.st = "ok" /\ br.val.some
  THEN Bind(classify(br.val.e, 1, <<br.val.first>>, <<>>), LAMBDA c :
       IF c.st = "panic" THEN Panic ELSE Ok(br.pos, Query(c.with, c.without)))
  ELSE Ok(IF br.st = "ok" THEN br.pos ELSE q.pos, Query(<<>>, <<>>))))

parse_value(t, p) ==
  Bind(parse_key_value(t, p), LAMBDA kv :
  IF kv.st # "err" THEN kv ELSE
  Bind(parse_base_object(t, p), LAMBDA bo :
  IF bo.st # "err" THEN bo ELSE
  Bind(parse_array(t, p), LAMBDA ar :
  IF ar.st # "err" THEN ar ELSE
  Bind(parse_dict(t, p), LAMBDA di :
  IF di.st # "err" THEN di ELSE
  Bind(parse_tuple(t, p), LAMBDA tu :
  IF tu.st # "err" THEN tu ELSE parse_query_single(t, p))))))

\* select! { Token::Add => Plus, Token::Sub => Minus, Token::Not => Not }
LeftOp == [Add |-> "Plus", Sub |-> "Minus", Not |-> "Not"]

parse_left_value(t, p) ==
  IF TokAt(t, p).k \notin DOMAIN LeftOp THEN Err ELSE
  Bind(parse_value(t, p + 1), LAMBDA hs :
  IF hs.st # "ok" THEN hs ELSE Ok(hs.pos, Unary(LeftOp[TokAt(t, p).k], hs.val)))

parse_left_question(t, p) ==
  Bind(parse_value(t, p), LAMBDA hs :
  IF hs.st # "ok" THEN hs ELSE
  Bind(just(t, hs.pos, "Question"), LAMBDA q :
  IF q.st # "ok" THEN q ELSE Ok(q.pos, Unary("Question", hs.val))))

\* parse_binary_op: token variant -> BinaryOp variant
BinaryOpOf ==
  [Add |-> "Add", Sub |-> "Sub", Mul |-> "Mul", Div |-> "Div",
   Equal |-> "Equal", NotEqual |-> "NotEqual", Greater |-> "Greater",
   Less |-> "Less", GreaterEqual |-> "GreaterEqual", LessEqual |-> "LessEqual",
   And |-> "And", Or |-> "Or", Pow |-> "Pow", Mod |-> "Mod", Not |-> "Not",
   Dot |-> "Dot", Assign |-> "Assign", AddAssign |-> "AddAssign",
   SubAssign |-> "SubAssign", MulAssign |-> "MulAssign",
   DivAssign |-> "DivAssign", ModAssign |-> "ModAssign",
   PowAssign |-> "PowAssign"]

\* parse_left_question.or(parse_value).or(parse_left_value)
parse_base_value(t, p) ==
  Bind(parse_left_question(t, p), LAMBDA lq :
  IF lq.st # "err" THEN lq ELSE
  Bind(parse_value(t, p), LAMBDA va :
  IF va.st # "err" THEN va ELSE parse_left_value(t, p)))

\* An operator application (op, e)
OpValue(pos, op, e) == Ok(pos, [op |-> op, e |-> e])

\* Faulty variant: the right operand is a base expression only
parse_base_binary_op_value_flat(t, p) ==
  IF TokAt(t, p).k \notin DOMAIN BinaryOpOf THEN Err ELSE
  Bind(parse_base_value(t, p + 1), LAMBDA e :
  IF e.st # "ok" THEN e ELSE OpValue(e.pos, BinaryOpOf[TokAt(t, p).k], e.val))

\* parse_binary_op.then(expression.clone())
parse_base_binary_op_value(t, p) ==
  IF TokAt(t, p).k \notin DOMAIN BinaryOpOf THEN Err ELSE
  Bind(expression(t, p + 1), LAMBDA e :
  IF e.st # "ok" THEN e ELSE OpValue(e.pos, BinaryOpOf[TokAt(t, p).k], e.val))

\* parse_tuple.clone().map(|e| (BinaryOp::Call, e))
parse_call_binary_op_value(t, p) ==
  Bind(parse_tuple(t, p), LAMBDA e :
  IF e.st # "ok" THEN e ELSE OpValue(e.pos, "Call", e.val))

\* Faulty variant: an array literal applied is taken for a call
parse_index_binary_op_value_call(t, p) ==
  Bind(parse_array(t, p), LAMBDA e :
  IF e.st # "ok" THEN e ELSE OpValue(e.pos, "Call", e.val))

\* parse_array.clone().map(|e| (BinaryOp::Index, e))
parse_index_binary_op_value(t, p) ==
  Bind(parse_array(t, p), LAMBDA e :
  IF e.st # "ok" THEN e ELSE OpValue(e.pos, "Index", e.val))

\* parse_dict.clone().map(|e| (BinaryOp::Key, e))
parse_table_binary_op_value(t, p) ==
  Bind(parse_dict(t, p), LAMBDA e :
  IF e.st # "ok" THEN e ELSE OpValue(e.pos, "Key", e.val))

\* parse_base_binary_op_value.or(call).or(index).or(table)
parse_op_value(t, p) ==
  Bind(parse_base_binary_op_value(t, p), LAMBDA ba :
  IF ba.st # "err" THEN ba ELSE
  Bind(parse_call_binary_op_value(t, p), LAMBDA ca :
  IF ca.st # "err" THEN ca ELSE
  Bind(parse_index_binary_op_value(t, p), LAMBDA ix :
  IF ix.st # "err" THEN ix ELSE parse_table_binary_op_value(t, p))))

\* parse_base_value.then(parse_op_value.or_not()).map(..)
expression(t, p) ==
  Bind(parse_base_value(t, p), LAMBDA hs :
  IF hs.st # "ok" THEN hs ELSE
  Bind(parse_op_value(t, hs.pos), LAMBDA op :
  IF op.st = "panic" THEN op ELSE
  IF op.st = "ok" THEN Ok(op.pos, Binary(op.val.op, hs.val, op.val.e))
  ELSE hs))

\* recursive(..).then_ignore(just(Token::Line).or_not())
parse_expression(t, p) ==
  Bind(expression(t, p), LAMBDA e :
  IF e.st # "ok" THEN e ELSE
  Ok(IF TokAt(t, e.pos).k = "Line" THEN e.pos + 1 ELSE e.pos, e.val))

(***************************************************************************)
(* Block grammar: recursive(|ast| ...).  A result is [st, pos, val, cnt,   *)
(* log]: cnt is indent_count when the parser returns, log the events of    *)
(* the call in order.  An event is [ev, cnt, open, pos]: ev names the step *)
(* ("dispatch": parse_ignored_tab reads the counter; "accept": the         *)
(* statement matched; "add" / "sub": the macros ran), cnt is indent_count  *)
(* before the step, open the number of if/elif/else bodies whose           *)
(* ast.repeated() is running (the depth of the recursion), pos the cursor. *)
(***************************************************************************)
Event(ev, cnt, open, pos) == [ev |-> ev, cnt |-> cnt, open |-> open, pos |-> pos]

BOk(pos, val, cnt, lg) == [st |-> "ok", pos |-> pos, val |-> val, cnt |-> cnt, log |-> lg]

BErr(cnt, lg) == [st |-> "err", pos |-> 0, val |-> Unit, cnt |-> cnt, log |-> lg]

BPanic(cnt, lg) == [st |-> "panic", pos |-> 0, val |-> Unit, cnt |-> cnt, log |-> lg]

\* Faulty variant: the counter is not incremented
add_indent_none(cnt) == cnt

\* macro add_indent: $indent_count.set($indent_count.get() + 1)

add_indent(cnt) == cnt + 1

\* Faulty variant: the counter is not decremented
sub_indent_none(cnt) == cnt

\* macro sub_indent: $indent_count.set($indent_count.get() - 1) on a usize.
\* A value below 0 stands for that value modulo 2^64 (the wrapped result of
\* a build without overflow checks); with overflow checks 0 - 1 panics.

sub_indent(cnt) == cnt - 1

\* oc: the build has overflow checks
SubPanics(cnt, oc) == cnt = 0 /\ oc

\* Faulty variant: at_least(count) in place of exactly(count)
parse_ignored_tab_at_least(t, p, cnt) ==
  IF cnt >= 0 /\ \A i \in 0..(cnt - 1) : TokAt(t, p + i).k = "Tab"
  THEN Ok(p + Cardinality({j \in 0..(Len(t) - p) : \A i \in 0..j : TokAt(t, p + i).k = "Tab"}), Unit)
  ELSE Err

\* just(Token::Tab).repeated().configure(|r, _| r.exactly(indent_count.get())):
\* the count is read from the Cell when the parser runs.  A wrapped counter
\* asks for more Tab tokens than any input holds.
parse_ignored_tab(t, p, cnt) ==
  IF cnt >= 0 /\ \A i \in 0..(cnt - 1) : TokAt(t, p + i).k = "Tab"
  THEN Ok(p + cnt, Unit)
  ELSE Err

\* just(Token::Line).to(Command::NewLine)
parse_empty(t, p) == IF TokAt(t, p).k = "Line" THEN Ok(p + 1, NewLine) ELSE Err

\* just(Token::Colon).then(just(Token::Line))
colon_line(t, p) ==
  IF TokAt(t, p).k = "Colon" /\ TokAt(t, p + 1).k = "Line" THEN Ok(p + 2, Unit) ELSE Err

RECURSIVE ast(_, _, _, _, _)

\* ast.clone().repeated().collect(): stops, without failing, at the first
\* position where ast does not match.
RECURSIVE ast_repeated(_, _, _, _, _)
ast_repeated(t, p, cnt, open, oc) ==
  Bind(ast(t, p, cnt, open, oc), LAMBDA a :
  IF a.st = "panic" THEN a ELSE
  IF a.st = "err" THEN BOk(p, <<>>, a.cnt, a.log) ELSE
  Bind(ast_repeated(t, a.pos, a.cnt, open, oc), LAMBDA r :
  IF r.st = "panic" THEN BPanic(r.cnt, a.log \o r.log)
  ELSE BOk(r.pos, <<a.val>> \o r.val, r.cnt, a.log \o r.log)))

\* The part shared by a body's two map closures: add_indent after the head,
\* the body, sub_indent.  q is the cursor after the head's Line.
body(t, q, cnt, open, oc) ==
  Bind(ast_repeated(t, q, add_indent(cnt), open + 1, oc), LAMBDA b :
      Bind(<<Event("add", cnt, open, q)>> \o b.log, LAMBDA lg :
  IF b.st = "panic" THEN BPanic(b.cnt, lg) ELSE
  Bind(Append(lg, Event("sub", b.cnt, open + 1, b.pos)), LAMBDA lg2 :
  IF SubPanics(b.cnt, oc) THEN BPanic(b.cnt, lg2)
  ELSE BOk(b.pos, b.val, sub_indent(b.cnt), lg2))))

\* just(Token::Elif).ignore_then(parse_expression)
\*   .then_ignore(colon, line).map(add_indent).then(body).map(sub_indent; Branch)
parse_elif(t, p, cnt, open, oc) ==
  IF TokAt(t, p).k # "Elif" THEN BErr(cnt, <<>>) ELSE
  Bind(parse_expression(t, p + 1), LAMBDA c :
  IF c.st = "panic" THEN BPanic(cnt, <<>>) ELSE
  IF c.st = "err" THEN BErr(cnt, <<>>) ELSE
  Bind(colon_line(t, c.pos), LAMBDA h :
  IF h.st # "ok" THEN BErr(cnt, <<>>) ELSE
  Bind(body(t, h.pos, cnt, open, oc), LAMBDA b :
  IF b.st # "ok" THEN b ELSE BOk(b.pos, Branch(c.val, b.val), b.cnt, b.log))))

\* just(Token::Else).ignore_then(colon, line).map(add_indent).then(body)
\*   .map(sub_indent; commands)
parse_else(t, p, cnt, open, oc) ==
  IF TokAt(t, p).k # "Else" THEN BErr(cnt, <<>>) ELSE
  Bind(colon_line(t, p + 1), LAMBDA h :
  IF h.st # "ok" THEN BErr(cnt, <<>>) ELSE
  body(t, h.pos, cnt, open, oc))

\* parse_elif.clone().repeated().collect::<Vec<Branch>>()
RECURSIVE parse_elif_repeated(_, _, _, _, _)
parse_elif_repeated(t, p, cnt, open, oc) ==
  Bind(parse_elif(t, p, cnt, open, oc), LAMBDA e :
  IF e.st = "panic" THEN e ELSE
  IF e.st = "err" THEN BOk(p, <<>>, e.cnt, e.log) ELSE
  Bind(parse_elif_repeated(t, e.pos, e.cnt, open, oc), LAMBDA r :
  IF r.st = "panic" THEN BPanic(r.cnt, e.log \o r.log)
  ELSE BOk(r.pos, <<e.val>> \o r.val, r.cnt, e.log \o r.log)))

\* The first branch of parse_if: just(Token::If).ignore_then(parse_expression)
\*   .then_ignore(colon, line).map(add_indent).then(body).map(sub_indent; Branch)
parse_if_branch(t, p, cnt, open, oc) ==
  IF TokAt(t, p).k # "If" THEN BErr(cnt, <<>>) ELSE
  Bind(parse_expression(t, p + 1), LAMBDA c :
  IF c.st = "panic" THEN BPanic(cnt, <<>>) ELSE
  IF c.st = "err" THEN BErr(cnt, <<>>) ELSE
  Bind(colon_line(t, c.pos), LAMBDA h :
  IF h.st # "ok" THEN BErr(cnt, <<>>) ELSE
  Bind(body(t, h.pos, cnt, open, oc), LAMBDA b :
  IF b.st # "ok" THEN b ELSE BOk(b.pos, Branch(c.val, b.val), b.cnt, b.log))))

\* Faulty variant: elifs.push(branch)
if_branches_appended(branch, elifs) == elifs \o <<branch>>

\* elifs.insert(0, branch)
if_branches(branch, elifs) == <<branch>> \o elifs

\* parse_if: first branch .then(elifs) .then(parse_else.or_not()) .map(Command::If)
parse_if(t, p, cnt, open, oc) ==
  Bind(parse_if_branch(t, p, cnt, open, oc), LAMBDA br :
  IF br.st # "ok" THEN br ELSE
  Bind(parse_elif_repeated(t, br.pos, br.cnt, open, oc), LAMBDA el :
  IF el.st = "panic" THEN BPanic(el.cnt, br.log \o el.log) ELSE
  Bind(parse_else(t, el.pos, el.cnt, open, oc), LAMBDA es :
      Bind(br.log \o el.log \o es.log, LAMBDA lg :
  IF es.st = "panic" THEN BPanic(es.cnt, lg) ELSE
  IF es.st = "ok"
  THEN BOk(es.pos, CmdIf(if_branches(br.val, el.val), SomeElse(es.val)), es.cnt, lg)
  ELSE BOk(el.pos, CmdIf(if_branches(br.val, el.val), NoElse), es.cnt, lg)))))

\* parse_ignored_tab.ignore_then(
\*   parse_empty.or(parse_expression.map(Command::Expression).or(parse_if)))
ast(t, p, cnt, open, oc) ==
  Bind(<<Event("dispatch", cnt, open, p)>>, LAMBDA d :
      Bind(parse_ignored_tab(t, p, cnt), LAMBDA tab :
  IF tab.st # "ok" THEN BErr(cnt, d) ELSE
  Bind(parse_empty(t, tab.pos), LAMBDA em :
  IF em.st = "ok" THEN BOk(em.pos, em.val, cnt, Append(d, Event("accept", cnt, open, p))) ELSE
  Bind(parse_expression(t, tab.pos), LAMBDA ex :
  IF ex.st = "panic" THEN BPanic(cnt, d) ELSE
  IF ex.st = "ok"
  THEN BOk(ex.pos, CmdExpression(ex.val), cnt, Append(d, Event("accept", cnt, open, p))) ELSE
  Bind(parse_if(t, tab.pos, cnt, open, oc), LAMBDA i :
  IF i.st = "ok"
  THEN BOk(i.pos, i.val, i.cnt, d \o i.log \o <<Event("accept", cnt, open, p)>>)
  ELSE [i EXCEPT !.log = d \o i.log])))))

\* build_ast(&indent_count).parse(stream): ast.repeated().collect(), then the
\* end of the input.  into_result() is Ok(commands) only if every token was
\* consumed, and Err(errors) otherwise.
build_ast(t, cnt, oc) ==
  Bind(ast_repeated(t, 1, cnt, 0, oc), LAMBDA r :
  IF r.st = "ok" /\ r.pos # Len(t) + 1 THEN BErr(r.cnt, r.log) ELSE r)

(***************************************************************************)
(* Tokenizer: #[derive(Logos)] enum Token.  The source text is a sequence  *)
(* of one-character strings.  At each position the lexer takes the longest *)
(* match over all the patterns; on equal length a #[token] literal has     *)
(* priority over a #[regex].                                               *)
(***************************************************************************)
Digits == {"0", "1", "2", "3", "4", "5", "6", "7", "8", "9"}

Letters ==
  {"a", "b", "c", "d", "e", "f", "g", "h", "i", "j", "k", "l", "m", "n", "o",
   "p", "q", "r", "s", "t", "u", "v", "w", "x", "y", "z", "A", "B", "C", "D",
   "E", "F", "G", "H", "I", "J", "K", "L", "M", "N", "O", "P", "Q", "R", "S",
   "T", "U", "V", "W", "X", "Y", "Z"}

IdentStart == Letters \cup {"_"}

IdentCont == IdentStart \cup Digits

\* The #[token("..")] literals
FixedTokens ==
  {[text |-> <<"(">>, k |-> "LeftParen"], [text |-> <<")">>, k |-> "RightParen"],
   [text |-> <<"{">>, k |-> "LeftBrace"], [text |-> <<"}">>, k |-> "RightBrace"],
   [text |-> <<"[">>, k |-> "LeftBracket"], [text |-> <<"]">>, k |-> "RightBracket"],
   [text |-> <<"+">>, k |-> "Add"], [text |-> <<"+", "+">>, k |-> "PlusOne"],
   [text |-> <<"-">>, k |-> "Sub"], [text |-> <<"-", "-">>, k |-> "MinusOne"],
   [text |-> <<"*">>, k |-> "Mul"], [text |-> <<"/">>, k |-> "Div"],
   [text |-> <<"%">>, k |-> "Mod"], [text |-> <<"^">>, k |-> "Pow"],
   [text |-> <<"=">>, k |-> "Assign"], [text |-> <<"+", "=">>, k |-> "AddAssign"],
   [text |-> <<"-", "=">>, k |-> "SubAssign"], [text |-> <<"*", "=">>, k |-> "MulAssign"],
   [text |-> <<"/", "=">>, k |-> "DivAssign"], [text |-> <<"%", "=">>, k |-> "ModAssign"],
   [text |-> <<"^", "=">>, k |-> "PowAssign"], [text |-> <<"=", "=">>, k |-> "Equal"],
   [text |-> <<"!", "=">>, k |-> "NotEqual"], [text |-> <<">">>, k |-> "Greater"],
   [text |-> <<"<">>, k |-> "Less"], [text |-> <<">", "=">>, k |-> "GreaterEqual"],
   [text |-> <<"<", "=">>, k |-> "LessEqual"],
   [text |-> <<"&", "&">>, k |-> "And"], [text |-> <<"&">>, k |-> "And"],
   [text |-> <<"a", "n", "d">>, k |-> "And"],
   [text |-> <<"|", "|">>, k |-> "Or"], [text |-> <<"|">>, k |-> "Or"],
   [text |-> <<"o", "r">>, k |-> "Or"],
   [text |-> <<"!">>, k |-> "Not"], [text |-> <<"?">>, k |-> "Question"],
   [text |-> <<":">>, k |-> "Colon"], [text |-> <<"i", "f">>, k |-> "If"],
   [text |-> <<"e", "l", "i", "f">>, k |-> "Elif"],
   [text |-> <<"e", "l", "s", "e">>, k |-> "Else"],
   [text |-> <<"w", "h", "i", "l", "e">>, k |-> "While"],
   [text |-> <<"f", "o", "r">>, k |-> "For"], [text |-> <<"p", "u", "b">>, k |-> "Pub"],
   [text |-> <<"f", "n">>, k |-> "Fn"],
   [text |-> <<"Q", "u", "e", "r", "y">>, k |-> "Query"],
   [text |-> <<",">>, k |-> "Comma"], [text |-> <<".">>, k |-> "Dot"],
   [text |-> <<"\n">>, k |-> "Line"],
   [text |-> <<" ", " ", " ", " ">>, k |-> "Tab"], [text |-> <<"\t">>, k |-> "Tab"]}

CharAt(s, p) == IF p >= 1 /\ p <= Len(s) THEN s[p] ELSE ""

Slice(s, from, to) == [i \in 1..(to - from + 1) |-> s[from + i - 1]]

MatchesAt(s, p, text) == \A i \in 1..Len(text) : CharAt(s, p + i - 1) = text[i]

\* The #[token] literals by their first character
FixedByFirst ==
  [c \in {g.text[1] : g \in FixedTokens} |-> {g \in FixedTokens : g.text[1] = c}]

\* The longest #[token] literal at p: [len, k], len = 0 when there is none.
FixedAt(s, p) ==
  IF CharAt(s, p) \notin DOMAIN FixedByFirst THEN [len |-> 0, k |-> ""] ELSE
  Bind({g \in FixedByFirst[CharAt(s, p)] : MatchesAt(s, p, g.text)}, LAMBDA ms :
  IF ms = {} THEN [len |-> 0, k |-> ""] ELSE
  Bind(CHOOSE g \in ms : \A h \in ms : Len(h.text) <= Len(g.text), LAMBDA f :
  [len |-> Len(f.text), k |-> f.k]))

\* Number of consecutive characters from p on that are in (not in) a class.
RECURSIVE Run(_, _, _)
Run(s, p, class) == IF CharAt(s, p) \in class THEN 1 + Run(s, p + 1, class) ELSE 0

RECURSIVE RunNot(_, _, _)
RunNot(s, p, stop) ==
  IF p <= Len(s) /\ s[p] \notin stop THEN 1 + RunNot(s, p + 1, stop) ELSE 0

\* [a-zA-Z_][a-zA-Z0-9_]*
IdentLen(s, p) == IF CharAt(s, p) \in IdentStart THEN 1 + Run(s, p + 1, IdentCont) ELSE 0

\* @[a-zA-Z_][a-zA-Z0-9_]*
StateLen(s, p) ==
  IF CharAt(s, p) = "@" /\ IdentLen(s, p + 1) > 0 THEN 1 + IdentLen(s, p + 1) ELSE 0

\* "[^"]*" and '[^']*' : 0 when the closing quote is missing.
QuotedLen(s, p, quote) ==
  IF CharAt(s, p) # quote THEN 0 ELSE
  Bind(RunNot(s, p + 1, {quote}), LAMBDA n :
  IF CharAt(s, p + 1 + n) = quote THEN n + 2 ELSE 0)

\* [0-9]*\.?[0-9]+([eE][-+]?[0-9]+)?
NumberLen(s, p) ==
  Bind(Run(s, p, Digits), LAMBDA d :
      Bind(IF CharAt(s, p + d) = "." THEN Run(s, p + d + 1, Digits) ELSE 0, LAMBDA f :
      Bind(IF f > 0 THEN d + 1 + f ELSE d, LAMBDA m :
      Bind(IF CharAt(s, p + m + 1) \in {"-", "+"} THEN 1 ELSE 0, LAMBDA sg :
      Bind(IF CharAt(s, p + m) \in {"e", "E"} THEN Run(s, p + m + 1 + sg, Digits) ELSE 0, LAMBDA x :
  IF m = 0 THEN 0 ELSE IF x > 0 THEN m + 1 + sg + x ELSE m)))))

\* #[^\n]*
CommentLen(s, p) == IF CharAt(s, p) = "#" THEN 1 + RunNot(s, p + 1, {"\n"}) ELSE 0

\* The Str callbacks.  Double quotes: &slice[0..slice.len()-1];
\* single quotes: &slice[1..slice.len()-1].  from is the index of the first
\* character kept, counted from the start of the slice (0-based).
DoubleQuoteSliceFrom == 0

SingleQuoteSliceFrom == 1

StrPayload(s, p, len, from) == Slice(s, p + from, p + len - 2)

\* Decimal::from_str(lex.slice()): a literal with an exponent is rejected,
\* and the callback's unwrap() panics.  The Decimal is named by its digits
\* without the leading zeros of the integer part.
RECURSIVE DecimalDigits(_)
DecimalDigits(ds) ==
  IF Len(ds) > 1 /\ ds[1] = "0" /\ ds[2] \in Digits THEN DecimalDigits(Tail(ds)) ELSE ds

DecimalFromStr(slice) ==
  IF \E i \in 1..Len(slice) : slice[i] \in {"e", "E"}
  THEN [st |-> "err", v |-> <<>>]
  ELSE [st |-> "ok", v |-> DecimalDigits(slice)]

\* One call of the lexer's next() at p, with no skipping: the longest match.
\* kind "Error" is the lexer's Err(()) for text no rule matches.
LexOne(s, p) ==
  Bind(FixedAt(s, p), LAMBDA fixed :
      Bind(fixed.len, LAMBDA fx :
      Bind(IdentLen(s, p), LAMBDA id :
      Bind(NumberLen(s, p), LAMBDA nm :
      Bind(QuotedLen(s, p, "\""), LAMBDA dq :
      Bind(QuotedLen(s, p, "'"), LAMBDA sq :
      Bind(StateLen(s, p), LAMBDA sta :
      Bind(CommentLen(s, p), LAMBDA cm :
      Bind(IF CharAt(s, p) = " " THEN 1 ELSE 0, LAMBDA ws :
      Bind(   CHOOSE n \in {fx, id, nm, dq, sq, sta, cm, ws} :
                \A m \in {fx, id, nm, dq, sq, sta, cm, ws} : m <= n, LAMBDA best :
  IF best = 0 THEN [k |-> "Error", v |-> <<>>, len |-> 1]
  ELSE IF fx = best THEN
         [k |-> fixed.k, v |-> <<>>, len |-> best]
  ELSE IF id = best THEN [k |-> "Ident", v |-> Slice(s, p, p + best - 1), len |-> best]
  ELSE IF nm = best THEN
         Bind(DecimalFromStr(Slice(s, p, p + best - 1)), LAMBDA d :
         [k |-> IF d.st = "ok" THEN "Number" ELSE "Panic", v |-> d.v, len |-> best])
  ELSE IF dq = best THEN
         [k |-> "Str", v |-> StrPayload(s, p, best, DoubleQuoteSliceFrom), len |-> best]
  ELSE IF sq = best THEN
         [k |-> "Str", v |-> StrPayload(s, p, best, SingleQuoteSliceFrom), len |-> best]
  ELSE IF sta = best THEN [k |-> "State", v |-> Slice(s, p + 1, p + best - 1), len |-> best]
  ELSE IF cm = best THEN [k |-> "Comment", v |-> <<>>, len |-> best]
  ELSE [k |-> "Whitespace", v |-> <<>>, len |-> best]))))))))))

\* At most n calls of next() from p on: [st, toks, pos].  Comment and
\* Whitespace are skipped (logos::skip); st = "panic" is the unwrap() of a
\* lexer error, or of the Decimal, in the collecting closure.
RECURSIVE LexUpTo(_, _, _)
LexUpTo(s, p, n) ==
  IF p > Len(s) \/ n = 0 THEN [st |-> "ok", toks |-> <<>>, pos |-> p] ELSE
  Bind(LexOne(s, p), LAMBDA one :
  IF one.k \in {"Error", "Panic"} THEN [st |-> "panic", toks |-> <<>>, pos |-> p] ELSE
  Bind(LexUpTo(s, p + one.len, n - 1), LAMBDA rest :
  IF rest.st # "ok" THEN rest ELSE
  IF one.k \in {"Comment", "Whitespace"} THEN rest
  ELSE [rest EXCEPT !.toks = <<[k |-> one.k, v |-> one.v]>> \o rest.toks]))

\* The text is tokenized ChunkLen matches at a time
ChunkLen == 16

\* Token::lexer(lex).spanned().map(|(token_result, span)| token_result.unwrap() ..)
\*   .collect::<Vec<_>>() from p on
RECURSIVE Lex(_, _)
Lex(s, p) ==
  Bind(LexUpTo(s, p, ChunkLen), LAMBDA c :
  IF c.st # "ok" \/ c.pos > Len(s) THEN [st |-> c.st, toks |-> c.toks] ELSE
  Bind(Lex(s, c.pos), LAMBDA rest :
  IF rest.st # "ok" THEN rest ELSE [st |-> "ok", toks |-> c.toks \o rest.toks]))

(***************************************************************************)
(* Source texts.  A program is a list of lines [indent, kind]; line i      *)
(* carries the number i, so that the statements of the AST can be told     *)
(* apart.                                                                  *)
(***************************************************************************)
MaxLines == 3

MaxElif == 2

MaxBody == 2

MaxDepth == 2

Dig == <<"0", "1", "2", "3", "4", "5", "6", "7", "8", "9">>

\* The decimal digits of i < 100
Dec(i) == IF i < 10 THEN <<Dig[i + 1]>> ELSE <<Dig[(i \div 10) + 1], Dig[(i % 10) + 1]>>

RECURSIVE Concat(_)
Concat(ss) == IF ss = <<>> THEN <<>> ELSE Head(ss) \o Concat(Tail(ss))

\* One indentation unit: a tab character or four spaces
IndentUnits == {<<"\t">>, <<" ", " ", " ", " ">>}

Indentation(n, unit) == Concat([i \in 1..n |-> unit])

LineKinds == {"expr", "if", "elif", "else", "blank"}

LineText(i, line, unit) ==
  Indentation(line.indent, unit) \o
  CASE line.kind = "expr"  -> Dec(i) \o <<"\n">>
    [] line.kind = "if"    -> <<"i", "f", " ">> \o Dec(i) \o <<":", "\n">>
    [] line.kind = "elif"  -> <<"e", "l", "i", "f", " ">> \o Dec(i) \o <<":", "\n">>
    [] line.kind = "else"  -> <<"e", "l", "s", "e", ":", "\n">>
    [] line.kind = "blank" -> <<"\n">>

LinesText(lines, unit) == Concat([i \in 1..Len(lines) |-> LineText(i, lines[i], unit)])

Line(indent, kind) == [indent |-> indent, kind |-> kind]

\* The indentation of a line of LinePrograms
IndentLevels == {0, 1, 2}

\* Every program of at most MaxLines lines whose first line is not indented
LinePrograms ==
  {[family |-> "lines", lines |-> ls, unit |-> <<"\t">>] :
     ls \in {l \in UNION {[1..n -> [indent : IndentLevels, kind : LineKinds]] : n \in 1..MaxLines} :
               l[1].indent = 0}}

\* An if statement nested in depth enclosing if bodies: the if, elifs elif
\* clauses and, with else, an else clause, all indented depth units; clause
\* c has sizes[c] expression statements, indented one unit more.
ClauseKind(c, elifs) == IF c = 1 THEN "if" ELSE IF c <= elifs + 1 THEN "elif" ELSE "else"

ChainLines(depth, elifs, sizes) ==
  [j \in 1..depth |-> Line(j - 1, "if")] \o
  Concat([c \in 1..Len(sizes) |->
            <<Line(depth, ClauseKind(c, elifs))>> \o [j \in 1..sizes[c] |-> Line(depth + 1, "expr")]])

ChainPrograms ==
  {[family |-> "chain", depth |-> d, elifs |-> k, sizes |-> sz, unit |-> u,
    lines |-> ChainLines(d, k, sz)] :
     d \in 0..MaxDepth, u \in IndentUnits, k \in 0..MaxElif,
     sz \in UNION {[1..n -> 0..MaxBody] : n \in 1..(MaxElif + 2)}}

\* A chain has elifs + 1 or elifs + 2 clauses; the nested ones are indented
\* with tabs only.
BlockInputs ==
  LinePrograms \cup
  {c \in ChainPrograms : /\ Len(c.sizes) \in {c.elifs + 1, c.elifs + 2}
                         /\ (c.depth > 0 => c.unit = <<"\t">>)}

(***************************************************************************)
(* Expression statements.  A piece is [text, ast]: its source text and the *)
(* Expression it denotes.                                                  *)
(***************************************************************************)
MaxItems == 2

MaxComponents == 3

Piece(text, expr) == [text |-> text, ast |-> expr]

Leaves ==
  <<Piece(<<"1">>, Constant(<<"1">>)), Piece(<<"x">>, Variable(<<"x">>)),
    Piece(<<"'", "s", "'">>, StrObj(<<"s">>)), Piece(<<"2">>, Constant(<<"2">>)),
    Piece(<<"y">>, Variable(<<"y">>)), Piece(<<"3">>, Constant(<<"3">>)),
    Piece(<<"z">>, Variable(<<"z">>))>>

Prefixed(op, text, piece) == Piece(text \o piece.text, Unary(op, piece.ast))

Questioned(piece) == Piece(piece.text \o <<"?">>, Unary("Question", piece.ast))

\* The spelling of each operator token of parse_binary_op
OpText ==
  [Add |-> <<"+">>, Sub |-> <<"-">>, Mul |-> <<"*">>, Div |-> <<"/">>,
   Equal |-> <<"=", "=">>, NotEqual |-> <<"!", "=">>, Greater |-> <<">">>,
   Less |-> <<"<">>, GreaterEqual |-> <<">", "=">>, LessEqual |-> <<"<", "=">>,
   And |-> <<"&", "&">>, Or |-> <<"|", "|">>, Pow |-> <<"^">>, Mod |-> <<"%">>,
   Not |-> <<"!">>, Dot |-> <<".">>, Assign |-> <<"=">>, AddAssign |-> <<"+", "=">>,
   SubAssign |-> <<"-", "=">>, MulAssign |-> <<"*", "=">>,
   DivAssign |-> <<"/", "=">>, ModAssign |-> <<"%", "=">>,
   PowAssign |-> <<"^", "=">>]

\* a op1 b op2 c, the operands being leaves, with or without a unary operator
OperandTriples ==
  {<<Leaves[1], Leaves[4], Leaves[6]>>, <<Leaves[2], Leaves[5], Leaves[7]>>,
   <<Leaves[3], Leaves[2], Leaves[1]>>,
   <<Prefixed("Minus", <<"-">>, Leaves[2]), Questioned(Leaves[5]), Leaves[1]>>,
   <<Questioned(Leaves[2]), Prefixed("Not", <<"!">>, Leaves[5]),
     Prefixed("Plus", <<"+">>, Leaves[7])>>}

ChainInputs ==
  {[family |-> "binary", a |-> tr[1], op1 |-> o1, b |-> tr[2], op2 |-> o2, c |-> tr[3],
    text |-> tr[1].text \o <<" ">> \o OpText[o1] \o <<" ">> \o tr[2].text \o <<" ">>
             \o OpText[o2] \o <<" ">> \o tr[3].text] :
     tr \in OperandTriples, o1 \in DOMAIN OpText, o2 \in DOMAIN OpText}

\* A base expression followed by a bracketed literal of n items, and then by
\* nothing, by a second literal or by an operator and an operand.
ApplyBases ==
  {Leaves[1], Leaves[2], Leaves[3], Prefixed("Minus", <<"-">>, Leaves[2]),
   Questioned(Leaves[2]),
   Piece(<<"(", "y", ")">>, Tuple(<<Variable(<<"y">>)>>)),
   Piece(<<"[", "y", "]">>, Array(<<Variable(<<"y">>)>>)),
   Piece(<<"Q", "u", "e", "r", "y">>, Query(<<>>, <<>>)),
   Piece(<<"Q", "u", "e", "r", "y", "<", "D", ">">>, Query(<<<<"D">>>>, <<>>))}

Brackets ==
  [Tuple |-> [open |-> "(", close |-> ")", op |-> "Call"],
   Array |-> [open |-> "[", close |-> "]", op |-> "Index"],
   Dict  |-> [open |-> "{", close |-> "}", op |-> "Key"]]

\* The items of a literal: the leaves in turn
ItemAt(j) == Leaves[((j - 1) % Len(Leaves)) + 1]

Literal(kind, n, trailing) ==
  Piece(<<Brackets[kind].open>>
          \o Concat([j \in 1..n |-> ItemAt(j).text \o IF j < n \/ trailing THEN <<",">> ELSE <<>>])
          \o <<Brackets[kind].close>>,
        [tag |-> kind, items |-> [j \in 1..n |-> ItemAt(j).ast]])

Follows ==
  [none |-> [text |-> <<>>, commands |-> <<>>],
   literal |-> [text |-> <<"(", "z", ")">>,
                commands |-> <<CmdExpression(Tuple(<<Variable(<<"z">>)>>))>>],
   operator |-> [text |-> <<" ", "+", " ", "1">>,
                 commands |-> <<CmdExpression(Unary("Plus", Constant(<<"1">>)))>>]]

ApplyInputs ==
  {[family |-> "apply", base |-> b, kind |-> kd, lit |-> Literal(kd, n, tr), follow |-> f,
    text |-> b.text \o Literal(kd, n, tr).text \o Follows[f].text] :
     b \in ApplyBases, kd \in DOMAIN Brackets, n \in 0..MaxItems,
     tr \in BOOLEAN, f \in DOMAIN Follows}

\* Query, Query<> and Query<c1 k2 c2 .. kn cn>, each connector in one of its
\* spellings
Connectors ==
  {[text |-> <<"&", "&">>, k |-> "And"], [text |-> <<"&">>, k |-> "And"],
   [text |-> <<"a", "n", "d">>, k |-> "And"], [text |-> <<"|", "|">>, k |-> "Or"],
   [text |-> <<"|">>, k |-> "Or"], [text |-> <<"o", "r">>, k |-> "Or"]}

Components ==
  <<<<"D", "o", "g">>, <<"C", "a", "t">>, <<"P", "i", "g">>, <<"C", "o", "w">>,
    <<"H", "e", "n">>, <<"E", "m", "u">>>>

QueryWord == <<"Q", "u", "e", "r", "y">>

\* conns[i] joins component i to component i + 1
QueryText(conns) ==
  QueryWord \o <<"<">> \o Components[1]
    \o Concat([i \in 1..Len(conns) |-> <<" ">> \o conns[i].text \o <<" ">> \o Components[i + 1]])
    \o <<">">>

QueryInputs ==
  {[family |-> "query", n |-> 0, conns |-> <<>>, text |-> QueryWord],
   [family |-> "query", n |-> 0, conns |-> <<>>, text |-> QueryWord \o <<"<", ">">>]}
  \cup
  {[family |-> "query", n |-> Len(cs) + 1, conns |-> cs, text |-> QueryText(cs)] :
     cs \in UNION {[1..m -> Connectors] : m \in 0..(MaxComponents - 1)}}

\* A token that is no connector, in the place of the last connector
NonConnectors ==
  {<<"+">>, <<"-">>, <<"*">>, <<"/">>, <<",">>, <<"<">>, <<">">>, <<":">>, <<".">>,
   <<"!">>, <<"=">>, <<"=", "=">>, <<"?">>, <<"(">>, <<"x">>, <<"1">>, <<"\n">>,
   <<"\t">>, <<"i", "f">>, <<"Q", "u", "e", "r", "y">>}

\* The statement ends at the closing bracket, or an operand follows it
BadQueryInputs ==
  {[family |-> "bad_query", n |-> Len(cs) + 1, conns |-> cs, tail |-> tl,
    text |-> QueryText(cs) \o tl] :
     tl \in {<<>>, <<" ", "y">>},
     cs \in UNION {{c \in [1..m -> Connectors \cup {[text |-> x, k |-> "Other"] : x \in NonConnectors}] :
                      /\ c[m].k = "Other"
                      /\ \A i \in 1..(m - 1) : c[i].text \in {<<"&">>, <<"|">>}} :
                   m \in 1..(MaxComponents - 1)}}

ExprInputs == ChainInputs \cup ApplyInputs \cup QueryInputs \cup BadQueryInputs

\* Every text of at most MaxSrcLen characters over the two quotes, a letter
\* and the space
MaxSrcLen == 5

LexInputs ==
  {[family |-> "text", text |-> tx] :
     tx \in UNION {[1..n -> {"\"", "'", "a", " "}] : n \in 1..MaxSrcLen}}

(***************************************************************************)
(* The pipeline of the tests: tokenize the text, then                      *)
(* build_ast(&indent_count).parse(token_stream).into_result()              *)
(***************************************************************************)
NoResult == [st |-> "none", commands |-> <<>>]

InitWith(inputs) ==
  /\ input \in inputs
  /\ src = IF input.family \in {"lines", "chain"} THEN LinesText(input.lines, input.unit)
           ELSE input.text
  /\ tokens = <<>>
  /\ indent_count = 0
  /\ pc = "lex"
  /\ result = NoResult
  /\ log = <<>>

Init == InitWith(BlockInputs)

\* Token::lexer(lex) ... .collect()
Tokenize ==
  /\ pc = "lex"
  /\ Bind(Lex(src, 1), LAMBDA l :
     /\ tokens' = l.toks
     /\ pc' = IF l.st = "ok" THEN "parse" ELSE "done"
     /\ result' = [st |-> IF l.st = "ok" THEN "none" ELSE "lex_panic", commands |-> <<>>])
  /\ UNCHANGED <<input, src, indent_count, log>>

\* build_ast(&indent_count).parse(token_stream).into_result(), in a build
\* with or without overflow checks
Parse ==
  /\ pc = "parse"
  /\ \E oc \in BOOLEAN :
       Bind(build_ast(tokens, indent_count, oc), LAMBDA r :
       /\ result' = [st |-> r.st, commands |-> IF r.st = "ok" THEN r.val ELSE <<>>]
       /\ indent_count' = r.cnt
       /\ log' = r.log)
  /\ pc' = "done"
  /\ UNCHANGED <<input, src, tokens>>

Next == Tokenize \/ Parse

\* Block programs
Spec == Init /\ [][Next]_vars

\* Expression statements
InitExpr == InitWith(ExprInputs)

SpecExpr == InitExpr /\ [][Next]_vars

\* Texts of quotes
InitLex == InitWith(LexInputs)

SpecLex == InitLex /\ [][Next]_vars

(***************************************************************************)
(* Properties                                                              *)
(***************************************************************************)
\* The parser has returned
Parsed == pc = "done" /\ result.st \in {"ok", "err", "panic"}

Events(ev) == {i \in DOMAIN log : log[i].ev = ev}

\* Number of consecutive Tab tokens at p
TabRun(t, p) ==
  Cardinality({j \in 0..(Len(t) - p) : \A i \in 0..j : TokAt(t, p + i).k = "Tab"})

\* What a chain of clauses must parse to.  Header(c) is the line of the
\* header of clause c; the statements of a body are the lines after it.
Header(in, c) == in.depth + Len(ChainLines(0, 0, SubSeq(in.sizes, 1, c - 1))) + 1

ExpectedBody(in, c) ==
  [j \in 1..in.sizes[c] |-> CmdExpression(Constant(Dec(Header(in, c) + j)))]

ExpectedIf(in) ==
  CmdIf([c \in 1..(in.elifs + 1) |->
           Branch(Constant(Dec(Header(in, c))), ExpectedBody(in, c))],
        IF Len(in.sizes) = in.elifs + 2
        THEN SomeElse(ExpectedBody(in, in.elifs + 2)) ELSE NoElse)

\* The statement nested in d enclosing if bodies, each of one branch whose
\* body is one statement; NewLine when the commands have no such shape.
RECURSIVE Nested(_, _)
Nested(commands, d) ==
  IF Len(commands) # 1 THEN NewLine
  ELSE IF d = 0 THEN commands[1]
  ELSE IF commands[1].tag # "If" \/ Len(commands[1].if_branch) # 1 THEN NewLine
  ELSE Nested(commands[1].if_branch[1].commands, d - 1)

\* C1: a statement is accepted at counter value d only on a line that starts
\* with exactly d Tab tokens, d being the value read at that dispatch; in a
\* body, a line with another number of Tab tokens ends the body there with no
\* error, the cursor staying at the line; and `if 1:` / one-unit `2` /
\* zero-unit `3` is [If{[Branch(1, [Expression(2)])], None}, Expression(3)].
C1_IndentationGating ==
  Parsed =>
    /\ \A i \in Events("accept") : TabRun(tokens, log[i].pos) = log[i].cnt
    /\ \A i \in Events("dispatch") :
         (log[i].open >= 1 /\ TabRun(tokens, log[i].pos) # log[i].cnt)
           => /\ i < Len(log)
              /\ log[i + 1] = Event("sub", log[i].cnt, log[i].open, log[i].pos)
    /\ (input.family = "lines"
        /\ input.lines = <<Line(0, "if"), Line(1, "expr"), Line(0, "expr")>>)
         => /\ result.st = "ok"
            /\ result.commands =
                 <<CmdIf(<<Branch(Constant(<<"1">>), <<CmdExpression(Constant(<<"2">>))>>)>>, NoElse),
                   CmdExpression(Constant(<<"3">>))>>

\* The body of the if was ended by a line of fewer Tab tokens than the counter
C1_Witness ==
  /\ Parsed
  /\ result.st = "ok"
  /\ \E i \in Events("dispatch") :
       log[i].open >= 1 /\ TabRun(tokens, log[i].pos) < log[i].cnt
  /\ input.family = "lines"
  /\ input.lines = <<Line(0, "if"), Line(1, "expr"), Line(0, "expr")>>

\* C2: the counter starts at 0, goes up by one when a body is entered and
\* down by one when it is left, whatever the number of statements of the
\* body: at every dispatch, and at every add and sub, the counter is the
\* number of open bodies, every body entered is left, and after a
\* successful parse the counter is 0.
C2_CounterDiscipline ==
  Parsed =>
    /\ \A i \in DOMAIN log : log[i].cnt = log[i].open
    /\ Cardinality(Events("add")) = Cardinality(Events("sub"))
    /\ result.st = "ok" => indent_count = 0

\* A parse that succeeded through a nested body of two statements
C2_Witness ==
  /\ Parsed
  /\ result.st = "ok"
  /\ input.family = "chain" /\ input.depth = 1 /\ input.sizes = <<2>>
  /\ \E i \in Events("dispatch") : log[i].cnt = 2
  /\ indent_count = 0

\* C3: an if with k elif clauses and an optional else, not nested, parses to
\* one Command::If of k + 1 branches in source order, each with its own
\* condition and body, and else_branch is Some(body) exactly when there is
\* an else clause.
C3_IfComposition ==
  (Parsed /\ input.family = "chain" /\ input.depth = 0)
    => /\ result.st = "ok"
       /\ result.commands = <<ExpectedIf(input)>>
       /\ Len(result.commands[1].if_branch) = input.elifs + 1
       /\ result.commands[1].else_branch.some = (Len(input.sizes) = input.elifs + 2)

\* if / elif / else with one statement each
C3_Witness ==
  /\ Parsed
  /\ input.family = "chain" /\ input.depth = 0 /\ input.elifs = 1
  /\ input.sizes = <<1, 1, 1>>
  /\ result.st = "ok"
  /\ Len(result.commands[1].if_branch) = 2
  /\ result.commands[1].else_branch = SomeElse(<<CmdExpression(Constant(<<"6">>))>>)

\* C8: an if nested in d >= 1 bodies, followed by elif / else lines of the
\* same d indentation units, parses to one Command::If with all its clauses.
C8_NestedElifElse ==
  (Parsed /\ input.family = "chain" /\ input.depth >= 1 /\ Len(input.sizes) >= 2)
    => /\ result.st = "ok"
       /\ Nested(result.commands, input.depth) = ExpectedIf(input)

\* C9: whatever the parse returns, the counter is back at the value it
\* started from, every add is matched by a later sub, no sub happens at 0 and
\* the parse does not panic.
C9_CounterBalance ==
  Parsed =>
    /\ indent_count = 0
    /\ result.st # "panic"
    /\ \A i \in Events("sub") : log[i].cnt > 0
    /\ \A n \in 0..Len(log) :
         Cardinality({i \in Events("sub") : i <= n}) <= Cardinality({i \in Events("add") : i <= n})
    /\ Cardinality(Events("add")) = Cardinality(Events("sub"))

\* A failed parse that had entered and left two bodies
C9_Witness ==
  /\ Parsed
  /\ result.st = "err"
  /\ Cardinality(Events("add")) >= 2
  /\ indent_count = 0

\* C4: a op1 b op2 c is Binary{op1, a, Binary{op2, b, c}} for every pair of
\* operators.
C4_RightAssociative ==
  (Parsed /\ input.family = "binary")
    => /\ result.st = "ok"
       /\ result.commands =
            <<CmdExpression(Binary(BinaryOpOf[input.op1], input.a.ast,
                                   Binary(BinaryOpOf[input.op2], input.b.ast, input.c.ast)))>>

\* 1 * 2 + 3 nests to the right
C4_Witness ==
  /\ Parsed
  /\ input.family = "binary" /\ input.op1 = "Mul" /\ input.op2 = "Add"
  /\ input.a = Leaves[1]
  /\ result.commands =
       <<CmdExpression(Binary("Mul", Constant(<<"1">>),
                              Binary("Add", Constant(<<"2">>), Constant(<<"3">>))))>>

\* What a query must be: the first component and those after an OR-family
\* connector are with-components, those after an AND-family one without
WithOf(in) ==
  IF in.n = 0 THEN <<>>
  ELSE <<Components[1]>> \o
       Concat([i \in 1..Len(in.conns) |->
                 IF in.conns[i].k = "Or" THEN <<Components[i + 1]>> ELSE <<>>])

WithoutOf(in) ==
  Concat([i \in 1..Len(in.conns) |->
            IF in.conns[i].k = "And" THEN <<Components[i + 1]>> ELSE <<>>])

\* C5: Query<c1 k2 c2 .. kn cn> is Query{with, without}, with = c1 and the
\* components after an OR-family connector, without = those after an
\* AND-family one, in source order; Query and Query<> have both lists empty.
C5_QueryClassification ==
  (Parsed /\ input.family = "query")
    => /\ result.st = "ok"
       /\ result.commands = <<CmdExpression(Query(WithOf(input), WithoutOf(input)))>>
       /\ Len(result.commands[1].e.with_compoents)
            + Len(result.commands[1].e.without_compoents) = input.n

\* Query<Dog | Cat & Pig>
C5_Witness ==
  /\ Parsed
  /\ input.family = "query" /\ input.n = 3
  /\ input.conns = <<[text |-> <<"|">>, k |-> "Or"], [text |-> <<"&">>, k |-> "And"]>>
  /\ result.commands =
       <<CmdExpression(Query(<<Components[1], Components[2]>>, <<Components[3]>>))>>

\* C6 as stated: a token that is no connector, in the connector position,
\* makes the parse panic.
C6_ConnectorPanics == (Parsed /\ input.family = "bad_query") => result.st = "panic"

\* C6 amended: such a token never makes the parse panic; it ends the
\* component list, and a statement that ends at the closing bracket is a
\* structural parse error.
C6_ConnectorIsParseError ==
  (Parsed /\ input.family = "bad_query")
    => /\ result.st # "panic"
       /\ input.tail = <<>> => result.st = "err"

\* Query<Dog + Cat> was parsed, and is an error
C6_Witness ==
  /\ Parsed
  /\ input.family = "bad_query" /\ input.n = 2 /\ input.tail = <<>>
  /\ input.conns[1].text = <<"+">>
  /\ result.st = "err"

\* C7: a base expression followed by a tuple, array or dict literal is
\* Binary{Call | Index | Key, base, literal}; only one application is attached:
\* what follows it is not part of the expression.
C7_AccessOperators ==
  (Parsed /\ input.family = "apply")
    => /\ result.st = "ok"
       /\ result.commands =
            <<CmdExpression(Binary(Brackets[input.kind].op, input.base.ast, input.lit.ast))>>
              \o Follows[input.follow].commands

\* x(1, x) is Binary{Call, Variable(x), Tuple([1, x])}
C7_Witness ==
  /\ Parsed
  /\ input.family = "apply" /\ input.kind = "Tuple" /\ input.base = Leaves[2]
  /\ Len(input.lit.ast.items) = 2
  /\ result.commands =
       <<CmdExpression(Binary("Call", Variable(<<"x">>),
                              Tuple(<<Constant(<<"1">>), Variable(<<"x">>)>>)))>>

\* A text that is one string literal: a quote, characters other than that
\* quote, the same quote
IsLiteral(tx) ==
  /\ Len(tx) >= 2
  /\ tx[1] \in {"\"", "'"}
  /\ tx[Len(tx)] = tx[1]
  /\ \A i \in 2..(Len(tx) - 1) : tx[i] # tx[1]

\* C10: the payload of a Str token is the characters strictly between the
\* quotes, for double-quoted and single-quoted literals alike.
C10_StrPayload ==
  (pc # "lex" /\ IsLiteral(src))
    => tokens = <<StrTok(SubSeq(src, 2, Len(src) - 1))>>

====
